---------------------------- MODULE Spec2Model ----------------------------
(***************************************************************************)
(* Model of the Speedy Bites restaurant chatbot (app/chatbot_logic.py and  *)
(* app/main.py).  Text is modelled as TLA+ strings and every string        *)
(* operation the code performs (lower, strip, split, join, replace, the    *)
(* regular-expression substitution, the "in" substring test) is computed   *)
(* character by character.  The canned replies are kept in ASCII; nothing  *)
(* in the code reads the characters left out.                              *)
(***************************************************************************)
EXTENDS Integers, Sequences, FiniteSets, TLC

(***************************************************************************)
(* Python string primitives.  Where a value is used more than once it is   *)
(* first bound to a quantified variable (x \in {value}), so that it is     *)
(* evaluated once.                                                         *)
(***************************************************************************)
UpperChars == "ABCDEFGHIJKLMNOPQRSTUVWXYZ"

LowerChars == "abcdefghijklmnopqrstuvwxyz"

DigitChars == "0123456789"

CharAt(s, i) == SubSeq(s, i, i)

CharSet(str) == {CharAt(str, i) : i \in 1..Len(str)}

SpaceChars == {" ", "\t", "\n", "\r"}

\* the regular-expression class \w restricted to ASCII
WordChars ==
  CharSet(LowerChars) \cup CharSet(UpperChars) \cup CharSet(DigitChars) \cup {"_"}

ToLower ==
  [c \in CharSet(UpperChars) |->
     CharAt(LowerChars, CHOOSE i \in 1..Len(UpperChars) : CharAt(UpperChars, i) = c)]

ToUpper ==
  [c \in CharSet(LowerChars) |->
     CharAt(UpperChars, CHOOSE i \in 1..Len(LowerChars) : CharAt(LowerChars, i) = c)]

LowerChar(c) == IF c \in DOMAIN ToLower THEN ToLower[c] ELSE c

UpperChar(c) == IF c \in DOMAIN ToUpper THEN ToUpper[c] ELSE c

RECURSIVE LowerRange(_, _, _)
LowerRange(s, lo, hi) ==
  IF lo > hi THEN ""
  ELSE IF lo = hi THEN LowerChar(CharAt(s, lo))
  ELSE CHOOSE r \in {LowerRange(s, lo, mid) \o LowerRange(s, mid + 1, hi) :
                       mid \in {(lo + hi) \div 2}} : TRUE

\* str.lower()
Lower(str) == CHOOSE r \in {LowerRange(s, 1, Len(s)) : s \in {str}} : TRUE

RECURSIVE UpperRange(_, _, _)
UpperRange(s, lo, hi) ==
  IF lo > hi THEN ""
  ELSE IF lo = hi THEN UpperChar(CharAt(s, lo))
  ELSE CHOOSE r \in {UpperRange(s, lo, mid) \o UpperRange(s, mid + 1, hi) :
                       mid \in {(lo + hi) \div 2}} : TRUE

\* str.upper()
Upper(str) == CHOOSE r \in {UpperRange(s, 1, Len(s)) : s \in {str}} : TRUE

\* str.strip()
Strip(str) ==
  CHOOSE r \in
    {IF keep = {} THEN ""
     ELSE SubSeq(s, CHOOSE i \in keep : \A j \in keep : i <= j,
                    CHOOSE i \in keep : \A j \in keep : j <= i) :
       s \in {str},
       keep \in {{i \in 1..Len(str) : CharAt(str, i) \notin SpaceChars}}} : TRUE

\* the Python test  sub in s  on strings
Contains(str, substr) ==
  \E s \in {str}, sub \in {substr} :
    \E i \in 1..(Len(s) - Len(sub) + 1) : SubSeq(s, i, i + Len(sub) - 1) = sub

\* the Python test  x in lst  on lists
InList(elem, lst) == \E x \in {elem} : \E i \in 1..Len(lst) : lst[i] = x

\* any(kw in s for kw in lst)
AnyIn(lst, str) ==
  \E s \in {str} : \E i \in 1..Len(lst) : Contains(s, lst[i])

\* the positions where a word of s begins
WordStarts(s) ==
  {i \in 1..Len(s) : /\ CharAt(s, i) \notin SpaceChars
                     /\ (i = 1 \/ CharAt(s, i - 1) \in SpaceChars)}

\* the last position of the word that begins at i
WordEnd(s, i) ==
  CHOOSE e \in i..Len(s) :
    /\ \A j \in i..e : CharAt(s, j) \notin SpaceChars
    /\ (e = Len(s) \/ CharAt(s, e + 1) \in SpaceChars)

\* the k-th smallest element of a set of numbers
Nth(set, k) == CHOOSE i \in set : Cardinality({j \in set : j < i}) = k - 1

\* str.split() with no argument: the maximal runs of non-space characters
Split(str) ==
  CHOOSE r \in
    {[k \in 1..Cardinality(starts) |->
        SubSeq(s, Nth(starts, k), WordEnd(s, Nth(starts, k)))] :
       s \in {str}, starts \in {WordStarts(str)}} : TRUE

RECURSIVE JoinRange(_, _, _, _)
JoinRange(sep, words, lo, hi) ==
  IF lo > hi THEN ""
  ELSE IF lo = hi THEN words[lo]
  ELSE CHOOSE r \in {JoinRange(sep, words, lo, mid) \o sep
                       \o JoinRange(sep, words, mid + 1, hi) :
                       mid \in {(lo + hi) \div 2}} : TRUE

\* sep.join(words)
Join(sep, wordlist) ==
  CHOOSE r \in {JoinRange(sep, words, 1, Len(words)) : words \in {wordlist}} :
    TRUE

\* the positions from i on where old occurs in s
Occurrences(s, old, i) ==
  {j \in i..(Len(s) - Len(old) + 1) : SubSeq(s, j, j + Len(old) - 1) = old}

RECURSIVE ReplaceFrom(_, _, _, _)
\* the scan of str.replace from position i: copy up to the next occurrence,
\* emit new, go on behind the occurrence
ReplaceFrom(s, old, new, i) ==
  CHOOSE r \in
    {IF occ = {} THEN SubSeq(s, i, Len(s))
     ELSE CHOOSE q \in
            {SubSeq(s, i, m - 1) \o new \o ReplaceFrom(s, old, new, m + Len(old)) :
               m \in {CHOOSE j \in occ : \A k \in occ : j <= k}} : TRUE :
       occ \in {Occurrences(s, old, i)}} : TRUE

\* str.replace(old, new) for a non-empty old
Replace(str, old, new) ==
  CHOOSE r \in {ReplaceFrom(s, old, new, 1) : s \in {str}} : TRUE

RECURSIVE SubNonWordRange(_, _, _)
SubNonWordRange(s, lo, hi) ==
  IF lo > hi THEN ""
  ELSE IF lo = hi
       THEN IF CharAt(s, lo) \in WordChars \cup SpaceChars THEN CharAt(s, lo)
            ELSE " "
  ELSE CHOOSE r \in
         {SubNonWordRange(s, lo, mid) \o SubNonWordRange(s, mid + 1, hi) :
            mid \in {(lo + hi) \div 2}} : TRUE

\* re.sub(r'[^\w\s]', ' ', s)
SubNonWord(str) ==
  CHOOSE r \in {SubNonWordRange(s, 1, Len(s)) : s \in {str}} : TRUE

(***************************************************************************)
(* Text normalizer                                                         *)
(***************************************************************************)
contractions ==
  << <<"what's", "what is">>, <<"what're", "what are">>, <<"who's", "who is">>,
     <<"where's", "where is">>, <<"when's", "when is">>, <<"why's", "why is">>,
     <<"how's", "how is">>, <<"it's", "it is">>, <<"that's", "that is">>,
     <<"there's", "there is">>, <<"here's", "here is">>, <<"i'm", "i am">>,
     <<"you're", "you are">>, <<"we're", "we are">>, <<"they're", "they are">>,
     <<"i've", "i have">>, <<"you've", "you have">>, <<"we've", "we have">>,
     <<"they've", "they have">>, <<"i'll", "i will">>, <<"you'll", "you will">>,
     <<"we'll", "we will">>, <<"they'll", "they will">>, <<"don't", "do not">>,
     <<"doesn't", "does not">>, <<"didn't", "did not">>, <<"can't", "cannot">>,
     <<"won't", "will not">>, <<"isn't", "is not">>, <<"aren't", "are not">>,
     <<"wasn't", "was not">>, <<"weren't", "were not">> >>

RECURSIVE ExpandRange(_, _, _)
\* for contraction, expansion in contractions.items(): text = text.replace(..)
\* for the contractions lo..hi of the table, in the order of the table
ExpandRange(text, lo, hi) ==
  IF lo = hi THEN Replace(text, contractions[lo][1], contractions[lo][2])
  ELSE CHOOSE r \in
         {ExpandRange(half, mid + 1, hi) :
            mid \in {(lo + hi) \div 2},
            half \in {ExpandRange(text, lo, (lo + hi) \div 2)}} : TRUE

normalize_text(text) ==
  ExpandRange(Join(" ", Split(SubNonWord(Strip(Lower(text))))),
              1, Len(contractions))

(***************************************************************************)
(* Intent classifier                                                       *)
(***************************************************************************)
IntentLabels ==
  {"greeting", "farewell", "halal_query", "brand_query", "hours_query",
   "branch_query", "faq_query", "menu_query", "about", "unknown"}

menu_keywords ==
  <<"show me the menu", "view menu", "see menu", "full menu", "all menu",
    "complete menu", "menu">>

goodbye_keywords == <<"bye", "exit", "quit", "goodbye", "see you", "farewell">>

food_keywords ==
  <<"burger", "pizza", "pasta", "fries", "drink", "roll", "wrap", "soup",
    "biryani", "karahi">>

\* FarewellRule with substring matching in place of word membership
FarewellSubstring(normalized_msg) == AnyIn(goodbye_keywords, normalized_msg)

\* any(w in goodbye_keywords for w in user_words)
FarewellRule(normalized_msg) ==
  \E user_words \in {Split(normalized_msg)} :
    \E i \in 1..Len(user_words) : InList(user_words[i], goodbye_keywords)

\* the cascade with the farewell rule tried before the menu keywords and the
\* price rule
classify_farewell_first(n) ==
  IF n = "show me the menu" THEN "menu_query"
  ELSE IF n = "what are your hours" THEN "hours_query"
  ELSE IF n = "where are your branches" THEN "branch_query"
  ELSE IF n = "do you offer delivery" THEN "faq_query"
  ELSE IF FarewellRule(n) THEN "farewell"
  ELSE IF AnyIn(menu_keywords, n) THEN "menu_query"
  ELSE IF Contains(n, "price") \/ Contains(n, "how much") \/ Contains(n, "cost")
       THEN "menu_query"
  ELSE IF Contains(n, "halal") \/ Contains(n, "haram") THEN "halal_query"
  ELSE IF \/ AnyIn(<<"what is speedy bites", "what is food bite", "brand",
                     "company", "famous", "speciality", "speed bite",
                     "who are we", "about you", "tell me about">>, n)
       THEN "brand_query"
  ELSE IF AnyIn(<<"branch", "location", "address", "where">>, n)
       THEN "branch_query"
  ELSE IF AnyIn(<<"hours", "open", "time", "when">>, n) THEN "hours_query"
  ELSE IF Contains(n, "delivery") \/ Contains(n, "deliver") THEN "faq_query"
  ELSE IF AnyIn(food_keywords, n) THEN "menu_query"
  ELSE "unknown"

\* the rule cascade on the normalized message
classify(n) ==
  IF n = "show me the menu" THEN "menu_query"
  ELSE IF Contains(n, "price") \/ Contains(n, "how much") THEN "menu_query"
  ELSE IF n = "what are your hours" THEN "hours_query"
  ELSE IF n = "where are your branches" THEN "branch_query"
  ELSE IF n = "do you offer delivery" THEN "faq_query"
  ELSE IF AnyIn(menu_keywords, n) THEN "menu_query"
  ELSE IF Contains(n, "price") \/ Contains(n, "how much") \/ Contains(n, "cost")
       THEN "menu_query"
  ELSE IF FarewellRule(n) THEN "farewell"
  ELSE IF Contains(n, "halal") \/ Contains(n, "haram") THEN "halal_query"
  ELSE IF \/ Contains(n, "what is speedy bites")
          \/ Contains(n, "what is food bite")
          \/ Contains(n, "brand")
          \/ Contains(n, "company")
       THEN "brand_query"
  ELSE IF Contains(n, "famous") \/ Contains(n, "speciality") THEN "brand_query"
  ELSE IF \/ Contains(n, "speed bite")
          \/ Contains(n, "who are we")
          \/ Contains(n, "about you")
          \/ Contains(n, "tell me about")
       THEN "brand_query"
  ELSE IF \/ Contains(n, "branch")
          \/ Contains(n, "location")
          \/ Contains(n, "address")
          \/ Contains(n, "where")
       THEN "branch_query"
  ELSE IF \/ Contains(n, "hours")
          \/ Contains(n, "open")
          \/ Contains(n, "time")
          \/ Contains(n, "when")
       THEN "hours_query"
  ELSE IF Contains(n, "delivery") \/ Contains(n, "deliver") THEN "faq_query"
  ELSE IF AnyIn(food_keywords, n) THEN "menu_query"
  ELSE "unknown"

\* detect_intent returning an empty label for a blank message
detect_intent_blank(user_msg) ==
  CHOOSE intent \in
    {IF normalized_msg = "" THEN "" ELSE classify(normalized_msg) :
       normalized_msg \in {normalize_text(user_msg)}} : TRUE

detect_intent(user_msg) ==
  CHOOSE intent \in
    {classify(normalized_msg) : normalized_msg \in {normalize_text(user_msg)}} :
    TRUE

(***************************************************************************)
(* Fuzzy matcher.  fuzz.ratio is the normalized Indel similarity           *)
(* 200 * LCS(a, b) / (len(a) + len(b)); it is kept as the exact fraction   *)
(* [num, den] and compared by cross-multiplication.  extractOne calls the  *)
(* scorer on the strings as given (no processor).                          *)
(***************************************************************************)
Max(a, b) == IF a >= b THEN a ELSE b

SetMax(set) == CHOOSE m \in set : \A n \in set : n <= m

\* row i of the longest-common-subsequence table from the row above it:
\* a[i] stays unmatched, or is matched with an equal b[k], k <= j
LcsRow(c, b, prev) ==
  <<>> \o [j \in 1..Len(b) |->
             SetMax({prev[j]} \cup
                    {(IF k = 1 THEN 0 ELSE prev[k - 1]) + 1 :
                       k \in {k \in 1..j : CharAt(b, k) = c}})]

RECURSIVE LcsRows(_, _, _, _, _)
\* the rows lo..hi of the table, starting from the row before lo
LcsRows(a, b, prev, lo, hi) ==
  IF lo = hi
  THEN CHOOSE r \in {LcsRow(c, b, p) : c \in {CharAt(a, lo)}, p \in {prev}} : TRUE
  ELSE CHOOSE r \in
         {LcsRows(a, b, half, mid + 1, hi) :
            mid \in {(lo + hi) \div 2},
            half \in {LcsRows(a, b, prev, lo, (lo + hi) \div 2)}} : TRUE

LCS(a, b) ==
  IF Len(a) = 0 \/ Len(b) = 0 THEN 0
  ELSE LcsRows(a, b, <<>> \o [j \in 1..Len(b) |-> 0], 1, Len(a))[Len(b)]

\* fuzz.ratio(a, b) as a fraction of 100
ratio(s1, s2) ==
  CHOOSE r \in
    {IF Len(a) + Len(b) = 0 THEN [num |-> 100, den |-> 1]
     ELSE [num |-> 200 * LCS(a, b), den |-> Len(a) + Len(b)] :
       a \in {s1}, b \in {s2}} : TRUE

\* score >= threshold
ScoreAtLeast(score, threshold) == score.num >= threshold * score.den

\* score1 > score2
ScoreGreater(s1, s2) == s1.num * s2.den > s2.num * s1.den

NoMatch == [found |-> FALSE]

\* the first choice among those of the highest score
BestOf(choices, scores) ==
  IF Len(choices) = 0 THEN NoMatch
  ELSE CHOOSE r \in
         {[found |-> TRUE, choice |-> choices[k], score |-> scores[k]] :
            k \in {CHOOSE k \in 1..Len(choices) :
                     /\ \A j \in 1..Len(choices) :
                          ~ScoreGreater(scores[j], scores[k])
                     /\ \A j \in 1..(k - 1) :
                          ScoreGreater(scores[k], scores[j])}} : TRUE

\* process.extractOne(query, choices, scorer=fuzz.ratio)
extractOne_ratio(query, choices) ==
  CHOOSE r \in
    {BestOf(c, <<>> \o [k \in 1..Len(c) |-> ratio(q, c[k])]) :
       q \in {query}, c \in {choices}} : TRUE

(***************************************************************************)
(* fuzz.token_set_ratio is not computed: its value depends on the version  *)
(* of the matching library the build resolves (older versions lower-case   *)
(* and strip both strings first), so the outcome of                        *)
(* process.extractOne(query, choices, scorer=fuzz.token_set_ratio) is any  *)
(* choice with any score of the given set, and no match exactly when there *)
(* are no choices.                                                         *)
(***************************************************************************)
MaxScore == 100

\* the scores on both sides of every threshold the resolver compares with
ThresholdScores == {0} \cup (58..62) \cup (78..MaxScore)

extractOne_token_set(choices, scores) ==
  IF Len(choices) = 0 THEN {NoMatch}
  ELSE {[found |-> TRUE, choice |-> choices[i], score |-> sc] :
          i \in 1..Len(choices), sc \in scores}

(***************************************************************************)
(* Catalog resolver                                                        *)
(***************************************************************************)
stop_words ==
  <<"what", "is", "the", "price", "of", "how", "much", "does", "cost",
    "show", "me", "tell", "about", "i", "want", "to", "order", "have",
    "you", "got", "list", "menu", "available", "can", "get", "a", "an",
    "in", "for", "please", "help", "need", "looking", "find", "search",
    "but", "asked", "meant", "say", "said">>

\* [w for w in words if w not in lst]
Filter(wordlist, lst) ==
  CHOOSE r \in
    {<<>> \o [k \in 1..Cardinality(keep) |-> words[Nth(keep, k)]] :
       words \in {wordlist},
       keep \in {{k \in 1..Len(wordlist) : ~InList(wordlist[k], lst)}}} : TRUE

clean_search_query(text) == Join(" ", Filter(Split(Lower(text)), stop_words))

\* JSON values whose Python type the code tests with isinstance
IsList(val) == val.t = "list"

IsDict(val) == val.t = "dict"

\* key in dict
HasKey(d, key) == key \in DOMAIN d

\* list(menu_data.keys())
CategoryNames(menu_data) ==
  <<>> \o [k \in 1..Len(menu_data) |-> menu_data[k][1]]

\* menu_data[category]
CategoryItems(menu_data, category) ==
  menu_data[CHOOSE k \in 1..Len(menu_data) : menu_data[k][1] = category][2]

\* concatenation of the sequences of a sequence
RECURSIVE Flatten(_, _, _)
Flatten(seqs, lo, hi) ==
  IF lo > hi THEN <<>>
  ELSE IF lo = hi THEN seqs[lo]
  ELSE Flatten(seqs, lo, (lo + hi) \div 2)
       \o Flatten(seqs, (lo + hi) \div 2 + 1, hi)

\* the (candidate, dish name) pairs one item adds to all_items and dish_map
ItemCandidates(item) ==
  IF IsDict(item) /\ HasKey(item.v, "name")
  THEN << <<item.v.name, item.v.name>> >>
       \o (IF HasKey(item.v, "variants")
           THEN Flatten([k \in 1..Len(item.v.variants) |->
                           IF HasKey(item.v.variants[k], "size")
                           THEN << <<item.v.variants[k].size \o " "
                                       \o item.v.name, item.v.name>> >>
                           ELSE <<>>],
                        1, Len(item.v.variants))
           ELSE <<>>)
  ELSE <<>>

\* all_items paired with the dish each candidate belongs to, in the order
\* the loop over menu_data.items() appends them
Candidates(menu_data) ==
  Flatten([k \in 1..Len(menu_data) |->
             IF IsList(menu_data[k][2])
             THEN Flatten([j \in 1..Len(menu_data[k][2].v) |->
                             ItemCandidates(menu_data[k][2].v[j])],
                          1, Len(menu_data[k][2].v))
             ELSE <<>>],
          1, Len(menu_data))

all_items(menu_data) ==
  CHOOSE r \in {<<>> \o [k \in 1..Len(c) |-> c[k][1]] :
                  c \in {Candidates(menu_data)}} : TRUE

\* dish_map[key]: the value of the last assignment to that lower-cased key
dish_map(menu_data, key) ==
  CHOOSE r \in
    {c[CHOOSE k \in 1..Len(c) :
         /\ Lower(c[k][1]) = key
         /\ \A j \in (k + 1)..Len(c) : Lower(c[j][1]) # key][2] :
       c \in {Candidates(menu_data)}} : TRUE

CategoryResult(menu_data, best_cat) ==
  [type |-> "category", data |-> best_cat,
   items |-> CategoryItems(menu_data, best_cat)]

DishResult(best_dish) == [type |-> "dish", data |-> best_dish]

None == [type |-> "none"]

\* decision_logic falling through to the dish when nothing was accepted
decision_logic_dish(menu_data, best_cat, cat_score, best_dish, dish_score) ==
  IF best_cat # "" /\ cat_score > 85
  THEN IF best_dish # "" /\ dish_score > cat_score + 10
       THEN DishResult(best_dish)
       ELSE CategoryResult(menu_data, best_cat)
  ELSE IF best_dish # "" /\ dish_score > 80 THEN DishResult(best_dish)
  ELSE IF best_cat # "" /\ best_dish # ""
       THEN IF cat_score >= dish_score
            THEN CategoryResult(menu_data, best_cat)
            ELSE DishResult(best_dish)
  ELSE IF best_cat # "" THEN CategoryResult(menu_data, best_cat)
  ELSE DishResult(best_dish)

\* decision_logic with weak ties going to the dish
decision_logic_ties(menu_data, best_cat, cat_score, best_dish, dish_score) ==
  IF best_cat # "" /\ cat_score > 85
  THEN IF best_dish # "" /\ dish_score > cat_score + 10
       THEN DishResult(best_dish)
       ELSE CategoryResult(menu_data, best_cat)
  ELSE IF best_dish # "" /\ dish_score > 80 THEN DishResult(best_dish)
  ELSE IF best_cat # "" /\ best_dish # ""
       THEN IF cat_score > dish_score
            THEN CategoryResult(menu_data, best_cat)
            ELSE DishResult(best_dish)
  ELSE IF best_cat # "" THEN CategoryResult(menu_data, best_cat)
  ELSE IF best_dish # "" THEN DishResult(best_dish)
  ELSE None

\* step 3 of search_category_or_dish; an unset best_cat or best_dish is "",
\* which the truth tests of the code treat like None
decision_logic(menu_data, best_cat, cat_score, best_dish, dish_score) ==
  IF best_cat # "" /\ cat_score > 85
  THEN IF best_dish # "" /\ dish_score > cat_score + 10
       THEN DishResult(best_dish)
       ELSE CategoryResult(menu_data, best_cat)
  ELSE IF best_dish # "" /\ dish_score > 80 THEN DishResult(best_dish)
  ELSE IF best_cat # "" /\ best_dish # ""
       THEN IF cat_score >= dish_score
            THEN CategoryResult(menu_data, best_cat)
            ELSE DishResult(best_dish)
  ELSE IF best_cat # "" THEN CategoryResult(menu_data, best_cat)
  ELSE IF best_dish # "" THEN DishResult(best_dish)
  ELSE None

\* boosted_score without the substring boost
boosted_score_none(cleaned_msg, dish_result) == dish_result.score

\* the score of the dish candidate after the substring boost
boosted_score(cleaned_msg, dish_result) ==
  IF Contains(Lower(dish_result.choice), Lower(cleaned_msg))
  THEN Max(dish_result.score, 95)
  ELSE dish_result.score

\* the accepted category: cat_result[1] >= 80
best_category(cat_result) ==
  IF cat_result.found /\ cat_result.score >= 80
  THEN [name |-> cat_result.choice, score |-> cat_result.score]
  ELSE [name |-> "", score |-> 0]

\* the accepted dish: boosted score >= 60, mapped back to the main dish
best_dish_of(menu_data, cleaned_msg, dish_result) ==
  IF ~dish_result.found THEN [name |-> "", score |-> 0]
  ELSE CHOOSE r \in
         {IF score >= 60
          THEN [name |-> dish_map(menu_data, Lower(dish_result.choice)),
                score |-> score]
          ELSE [name |-> "", score |-> 0] :
            score \in {boosted_score(cleaned_msg, dish_result)}} : TRUE

\* cleaned_msg of search_category_or_dish: the cleaned query, or the
\* message itself when cleaning leaves nothing
search_query(user_msg) ==
  CHOOSE r \in
    {IF cleaned = "" THEN user_msg ELSE cleaned :
       cleaned \in {clean_search_query(user_msg)}} : TRUE

\* search_category_or_dish for given outcomes of its two extractOne calls
resolve(cleaned_msg, menu_data, cat_result, dish_result) ==
  CHOOSE r \in
    {decision_logic(menu_data, cat.name, cat.score, dish.name, dish.score) :
       cat \in {best_category(cat_result)},
       dish \in {best_dish_of(menu_data, cleaned_msg, dish_result)}} : TRUE

\* the results search_category_or_dish can return, whatever the scorer
\* does: steps 1 and 2 for every outcome of extractOne, then step 3
search_category_or_dish(user_msg, menu_data, scores) ==
  CHOOSE r \in
    {{decision_logic(menu_data, cat.name, cat.score, dish.name, dish.score) :
        cat \in cats, dish \in dishes} :
       cats \in {{best_category(cat_result) :
                    cat_result \in
                      extractOne_token_set(CategoryNames(menu_data), scores)}},
       dishes \in {{best_dish_of(menu_data, search_query(user_msg),
                                 dish_result) :
                      dish_result \in
                        extractOne_token_set(all_items(menu_data), scores)}}} :
    TRUE

(***************************************************************************)
(* Response renderer.  The literals are kept in ASCII: emoji and rules are *)
(* left out, a bullet is "*" and a dash is "-".                            *)
(***************************************************************************)
greetings ==
  <<"Hi!  Welcome to Speedy Bites! How can I help you today?",
    "Hello! Welcome to Speedy Bites!  What would you like?",
    "Hey there!  Welcome to Speedy Bites! What can I do for you?">>

farewells ==
  <<"Bye! Have a great day!", "See you soon!",
    "Thanks for visiting Speedy Bites!">>

\* list(KNOWN_UNAVAILABLE_CATEGORIES.keys())
KNOWN_UNAVAILABLE_KEYS == <<"roll", "rolls", "role", "wrap", "soup">>

KNOWN_UNAVAILABLE_CATEGORIES(key) ==
  CASE key = "roll"  -> "rolls"
    [] key = "rolls" -> "rolls"
    [] key = "role"  -> "rolls"
    [] key = "wrap"  -> "wraps"
    [] key = "soup"  -> "soups"

view_menu_keywords ==
  <<"show me the menu", "view menu", "show menu", "see menu", "menu button">>

full_menu_keywords ==
  <<"full menu", "all menu", "complete menu", "entire menu", "show all">>

AlreadyViewed == "You've already viewed this, but here's the info again:\n\n"

SetMin(set) == CHOOSE m \in set : \A n \in set : m <= n

\* [v.get("price", 0) for v in variants if isinstance(v, dict) and "price" in v]
VariantPrices(variants) ==
  {variants[k].price : k \in {k \in 1..Len(variants) :
                                 HasKey(variants[k], "price")}}

\* the price part of one line of build_category_response
CategoryPrice(item, currency) ==
  IF HasKey(item, "variants") /\ Len(item.variants) > 0
  THEN IF \A k \in 1..Len(item.variants) : ~HasKey(item.variants[k], "price")
       THEN ""
       ELSE IF Cardinality({k \in 1..Len(item.variants) :
                              HasKey(item.variants[k], "price")}) = 1
            THEN " - " \o ToString(SetMin(VariantPrices(item.variants)))
                 \o " " \o currency
            ELSE " - " \o ToString(SetMin(VariantPrices(item.variants)))
                 \o "-" \o ToString(SetMax(VariantPrices(item.variants)))
                 \o " " \o currency
  ELSE IF HasKey(item, "base_price")
       THEN " - " \o ToString(item.base_price) \o " " \o currency
       ELSE ""

CategoryLine(item, currency) ==
  "* **" \o item.name \o "**" \o CategoryPrice(item, currency) \o "\n"

RECURSIVE CategoryLines(_, _, _)
CategoryLines(items, k, currency) ==
  IF k > Len(items) THEN ""
  ELSE (IF IsDict(items[k]) /\ HasKey(items[k].v, "name")
        THEN CategoryLine(items[k].v, currency) ELSE "")
       \o CategoryLines(items, k + 1, currency)

\* category.upper().replace('_', ' ')
DisplayName(category) == Replace(Upper(category), "_", " ")

\* items is the value stored under the category: iterating a list visits its
\* elements, iterating a dict visits its keys, which are strings and skipped
build_category_response(category_name, items, currency) ==
  "**" \o DisplayName(category_name) \o "**\n"
  \o "------------------------------\n\n"
  \o (IF IsList(items) THEN CategoryLines(items.v, 1, currency) ELSE "")
  \o "\nType a specific dish name for more details!"

\* one item line of the full menu
FullMenuLine(item, currency) ==
  "* " \o item.name
  \o (IF HasKey(item, "base_price")
      THEN " - " \o ToString(item.base_price) \o " " \o currency ELSE "")
  \o "\n"

RECURSIVE FullMenuLines(_, _, _)
FullMenuLines(items, k, currency) ==
  IF k > Len(items) THEN ""
  ELSE (IF IsDict(items[k]) /\ HasKey(items[k].v, "name")
        THEN FullMenuLine(items[k].v, currency) ELSE "")
       \o FullMenuLines(items, k + 1, currency)

FullMenuHeader == "Sure!  Here's our full menu at Speedy Bites \n\n"

RECURSIVE FullMenuCategories(_, _, _)
FullMenuCategories(menu_data, k, currency) ==
  IF k > Len(menu_data) THEN ""
  ELSE (IF ~IsList(menu_data[k][2]) \/ Len(menu_data[k][2].v) = 0 THEN ""
        ELSE DisplayName(menu_data[k][1]) \o "\n"
             \o "--------------------\n"
             \o FullMenuLines(menu_data[k][2].v, 1, currency)
             \o "\n")
       \o FullMenuCategories(menu_data, k + 1, currency)

\* the loop of the full-menu request
full_menu_response(menu_data, currency) ==
  FullMenuHeader \o FullMenuCategories(menu_data, 1, currency)

\* truth value of a JSON list, dict or string
Truthy(val) ==
  IF IsDict(val) THEN DOMAIN val.v # {} ELSE Len(val.v) > 0

Returned(text) == [status |-> "ok", text |-> text]

Raised(exc) == [status |-> "raise", text |-> exc]

\* items[0]['name'] of the preview loop: the exception it raises, or "" when
\* it evaluates
FirstNameError(items) ==
  IF IsDict(items) THEN "KeyError"
  ELSE IF ~IsList(items) THEN "TypeError"
  ELSE IF ~IsDict(items.v[1]) THEN "TypeError"
  ELSE IF ~HasKey(items.v[1].v, "name") THEN "KeyError"
  ELSE ""

RECURSIVE PopularItems(_, _, _)
\* the preview loop over menu_data.items(), from category k on with count
\* lines written: the lines it appends, or the exception it raises
PopularItems(menu_data, k, count) ==
  IF k > Len(menu_data) \/ count >= 3 THEN Returned("")
  ELSE IF ~Truthy(menu_data[k][2]) THEN PopularItems(menu_data, k + 1, count)
  ELSE IF FirstNameError(menu_data[k][2]) # ""
       THEN Raised(FirstNameError(menu_data[k][2]))
  ELSE CHOOSE r \in
         {IF rest.status = "ok"
          THEN Returned("* " \o menu_data[k][2].v[1].v.name \o "\n"
                        \o rest.text)
          ELSE rest :
            rest \in {PopularItems(menu_data, k + 1, count + 1)}} : TRUE

\* the Popular Items fallback of the menu handler
popular_items_response(menu_data) ==
  CHOOSE r \in
    {IF lines.status = "ok"
     THEN Returned("**Popular Items:**\n\n" \o lines.text
                   \o "\nAsk me about any specific dish for details!")
     ELSE lines :
       lines \in {PopularItems(menu_data, 1, 0)}} : TRUE

\* b.get(key, default)
Get(d, key, default) == IF HasKey(d, key) THEN d[key] ELSE default

RECURSIVE BranchLines(_, _)
BranchLines(branches, k) ==
  IF k > Len(branches) THEN ""
  ELSE (IF ~IsDict(branches[k]) THEN ""
        ELSE "**" \o Get(branches[k].v, "name", "Unknown") \o "**\n"
             \o Get(branches[k].v, "address", "Not available") \o "\n"
             \o Get(branches[k].v, "phone", "Not available") \o "\n\n")
       \o BranchLines(branches, k + 1)

RECURSIVE HoursLines(_, _)
HoursLines(hours_list, k) ==
  IF k > Len(hours_list) THEN ""
  ELSE (IF ~IsDict(hours_list[k]) THEN ""
        ELSE "Monday-Sunday: 11:00 AM - 2:00 AM\n")
       \o HoursLines(hours_list, k + 1)

RECURSIVE FaqAnswer(_, _, _)
\* the loop over the FAQ entries; q.get raises on an entry that is no dict
FaqAnswer(faqs, k, prefix) ==
  IF k > Len(faqs)
  THEN Returned(prefix \o
         "We offer delivery services! Please contact us directly for areas. ")
  ELSE IF ~IsDict(faqs[k]) THEN Raised("AttributeError")
  ELSE IF Contains(Lower(Get(faqs[k].v, "question", "")), "deliver")
       THEN Returned(prefix \o Get(faqs[k].v, "answer", "We deliver!"))
       ELSE FaqAnswer(faqs, k + 1, prefix)

\* [item["name"] for cat, items in menu.items() if isinstance(items, list)
\*  for item in items if isinstance(item, dict) and "name" in item]
DishNames(menu_data) ==
  Flatten([k \in 1..Len(menu_data) |->
             IF IsList(menu_data[k][2])
             THEN Flatten([j \in 1..Len(menu_data[k][2].v) |->
                             IF IsDict(menu_data[k][2].v[j])
                                /\ HasKey(menu_data[k][2].v[j].v, "name")
                             THEN <<menu_data[k][2].v[j].v.name>>
                             ELSE <<>>],
                          1, Len(menu_data[k][2].v))
             ELSE <<>>],
          1, Len(menu_data))

(***************************************************************************)
(* Datasets load_data can hand to the core.  An object whose order matters *)
(* (the menu) is a sequence of <<key, value>> pairs.                       *)
(***************************************************************************)
Dict(v) == [t |-> "dict", v |-> v]

List(v) == [t |-> "list", v |-> v]

Str(v) == [t |-> "str", v |-> v]

ZingerBurger == Dict([name |-> "Zinger Burger", base_price |-> 350])

BeefBurger ==
  Dict([name |-> "Beef Burger",
        variants |-> <<[size |-> "Single", price |-> 400],
                       [size |-> "Double", price |-> 550]>>])

Nuggets ==
  Dict([name |-> "Nuggets", variants |-> <<[size |-> "Large", price |-> 250]>>])

DataFull ==
  [menu     |-> << <<"burgers", List(<<ZingerBurger, BeefBurger>>)>>,
                   <<"deals", List(<<>>)>>,
                   <<"sides", List(<<Nuggets>>)>> >>,
   currency |-> "PKR",
   branches |-> <<Dict([name |-> "Main Branch", address |-> "12 Mall Road",
                        phone |-> "111-222"]),
                  Dict([name |-> "City Branch"])>>,
   hours    |-> <<Dict([branch |-> "Main Branch"])>>,
   faq      |-> <<Dict([question |-> "What are your timings?",
                        answer |-> "We open at 11 AM."]),
                  Dict([question |-> "Do you deliver?",
                        answer |-> "Yes, we deliver across the city."])>>]

DataEmpty ==
  [menu |-> <<>>, currency |-> "PKR", branches |-> <<>>, hours |-> <<>>,
   faq |-> <<>>]

\* records of the wrong shape: an item without a name, an item that is a
\* string, a category whose value is an object instead of a list
DataMalformed ==
  [menu     |-> << <<"burgers", List(<<Dict([base_price |-> 100]),
                                       Str("coming soon"), ZingerBurger>>)>>,
                   <<"drinks", Dict([note |-> "seasonal"])>> >>,
   currency |-> "PKR",
   branches |-> <<Str("closed"), Dict([name |-> "Main Branch"])>>,
   hours    |-> <<Str("closed")>>,
   faq      |-> <<Dict([answer |-> "We open at 11 AM."]), Str("n/a")>>]

DatasetList == <<DataFull, DataEmpty, DataMalformed>>

Datasets == {DatasetList[i] : i \in 1..Len(DatasetList)}

DataIndex(d) == CHOOSE i \in 1..Len(DatasetList) : DatasetList[i] = d

\* the request texts of the model
MessageList ==
  <<"hi", "goodbye", "see you", "I'm not a goodbyeologist", "is it halal",
    "tell me about your company", "Where are your branches?",
    "What are your hours", "Do you offer delivery", "Show me the menu",
    "full menu", "what's the price of zinger burger", "price",
    "do you have rolls", "menu bye", "where do you open", "nuggets",
    "Zinger Burgr", "zinger", "price of rolls", "">>

Messages == {MessageList[k] : k \in 1..Len(MessageList)}

MsgIndex(m) == CHOOSE k \in 1..Len(MessageList) : MessageList[k] = m

\* the quick-reply labels api_query attaches
actions_for(message) ==
  CHOOSE r \in
    {IF AnyIn(<<"hi", "hello", "hey", "greet", "start">>, msg_lower)
     THEN <<"View Menu", "Our Branches", "Opening Hours">>
     ELSE IF AnyIn(<<"menu", "dish", "food", "order", "burger", "pizza">>,
                   msg_lower)
     THEN <<"Full Menu", "Our Branches", "Order Online">>
     ELSE IF AnyIn(<<"branch", "location", "address", "where">>, msg_lower)
     THEN <<"View Menu", "Opening Hours", "Contact">>
     ELSE IF AnyIn(<<"open", "hour", "timing", "close", "time">>, msg_lower)
     THEN <<"View Menu", "Our Branches">>
     ELSE <<>> :
       msg_lower \in {Lower(message)}} : TRUE

\* what the handlers compute from the message text alone
TextFacts(user_msg) ==
  CHOOSE r \in
    {[normalized  |-> normalize_text(user_msg),
      intent      |-> detect_intent(user_msg),
      user_lower  |-> user_lower,
      cleaned_msg |-> cleaned_msg,
      words       |-> Len(Split(user_msg)),
      wants_view_menu |-> AnyIn(view_menu_keywords, user_lower),
      wants_full_menu |-> AnyIn(full_menu_keywords, user_lower),
      asks_price  |-> Contains(user_lower, "price")
                      \/ Contains(user_lower, "cost"),
      followup_word |-> \/ Contains(user_lower, "price")
                        \/ Contains(user_lower, "cost")
                        \/ Contains(user_lower, "want"),
      unavailable_match |-> extractOne_ratio(cleaned_msg,
                                             KNOWN_UNAVAILABLE_KEYS),
      actions     |-> actions_for(user_msg)] :
       user_lower \in {Strip(Lower(user_msg))},
       cleaned_msg \in {clean_search_query(user_msg)}} : TRUE

\* TextFacts of every message of the model, computed once
TextFactsTable ==
  <<>> \o [k \in 1..Len(MessageList) |-> TextFacts(MessageList[k])]

Facts(user_msg) == TextFactsTable[MsgIndex(user_msg)]

\* search_category_or_dish on every menu and message of the model that
\* reaches it, computed once
SearchTable ==
  <<>> \o [i \in 1..Len(DatasetList) |->
             <<>> \o [k \in 1..Len(MessageList) |->
                        IF Facts(MessageList[k]).intent = "menu_query"
                        THEN search_category_or_dish(MessageList[k],
                                                     DatasetList[i].menu,
                                                     ThresholdScores)
                        ELSE {}]]

SearchResults(user_msg, data) ==
  SearchTable[DataIndex(data)][MsgIndex(user_msg)]

\* the extractOne call of the fallback on every menu and message of the
\* model, computed once
FallbackTable ==
  <<>> \o [i \in 1..Len(DatasetList) |->
             <<>> \o [k \in 1..Len(MessageList) |->
                        extractOne_ratio(MessageList[k],
                                         DishNames(DatasetList[i].menu))]]

FallbackMatch(user_msg, data) ==
  FallbackTable[DataIndex(data)][MsgIndex(user_msg)]

(***************************************************************************)
(* Session: a Python dict, modelled as a function on the keys it holds     *)
(***************************************************************************)
EmptyDict == [k \in {} |-> 0]

Put(d, key, val) ==
  [k \in DOMAIN d \cup {key} |-> IF k = key THEN val ELSE d[k]]

SetDefault(d, key, val) == IF HasKey(d, key) THEN d ELSE Put(d, key, val)

shown_flags == {"shown_menu", "shown_hours", "shown_branches", "shown_delivery"}

\* init_session clearing the stored topic at every call
init_session_reset(session) ==
  Put(SetDefault([k \in DOMAIN session \cup shown_flags |->
                    IF HasKey(session, k) THEN session[k] ELSE 0],
                 "faq_followup", None),
      "last_topic", None)

\* lines 487-496 of get_bot_response
init_session(session) ==
  SetDefault(SetDefault([k \in DOMAIN session \cup shown_flags |->
                           IF HasKey(session, k) THEN session[k] ELSE 0],
                        "last_topic", None),
             "faq_followup", None)

\* what one call leaves behind: the returned text or the raised exception,
\* the session as mutated so far, the result of the catalog resolver and
\* the topic the menu handler rendered
Result(ret, session) ==
  [status |-> ret.status, text |-> ret.text, session |-> session,
   found |-> None, topic |-> None]

WithTopic(res, found, topic) == [res EXCEPT !.found = found, !.topic = topic]

\* lines 583-613: the response for the topic, or the fallbacks
process_match(facts, data, result) ==
  IF result # None /\ result.type = "category"
  THEN Returned(build_category_response(result.data, result.items,
                                        data.currency))
  \* find_dish_by_name is defined nowhere in the module: the call raises
  ELSE IF result # None /\ result.type = "dish" THEN Raised("NameError")
  ELSE IF facts.asks_price
  THEN Returned("Which dish are you asking about? Please mention the dish name so I can tell you the price. ")
  ELSE popular_items_response(data.menu)

\* menu_search with a follow-up answered from the stored topic whatever
\* search_category_or_dish found
menu_search_stored_first(facts, data, session, found) ==
  IF session["last_topic"] # None
     /\ (facts.cleaned_msg = "" \/ facts.followup_word)
  THEN WithTopic(Result(process_match(facts, data, session["last_topic"]),
                        session),
                 found, session["last_topic"])
  ELSE IF found # None
  THEN WithTopic(Result(process_match(facts, data, found),
                        Put(session, "last_topic", found)),
                 found, found)
  ELSE WithTopic(Result(process_match(facts, data, None), session),
                 found, None)

\* the menu_query handler below the view-menu and full-menu requests, for
\* one result of search_category_or_dish
menu_search(facts, data, session, found) ==
  IF /\ found = None
     /\ facts.cleaned_msg # ""
     /\ facts.unavailable_match.found
     /\ ScoreAtLeast(facts.unavailable_match.score, 80)
  THEN WithTopic(Result(Returned("Currently, "
                   \o KNOWN_UNAVAILABLE_CATEGORIES(
                        facts.unavailable_match.choice)
                   \o " are not available  but we'll be adding them back very soon!"),
                 session), found, None)
  ELSE IF found # None
  THEN WithTopic(Result(process_match(facts, data, found),
                        Put(session, "last_topic", found)),
                 found, found)
  ELSE IF session["last_topic"] # None
          /\ (facts.cleaned_msg = "" \/ facts.followup_word)
  THEN WithTopic(Result(process_match(facts, data, session["last_topic"]),
                        session),
                 found, session["last_topic"])
  ELSE WithTopic(Result(process_match(facts, data, None), session),
                 found, None)

\* branch_handler setting the counter to 1 the way shown_menu is set
branch_handler_flag(data, session) ==
  IF Len(data.branches) = 0
  THEN Result(Returned("Sorry, branch information is not available."),
              session)
  ELSE Result(Returned(Strip(
                (IF session["shown_branches"] > 0 THEN AlreadyViewed ELSE "")
                \o "OUR BRANCHES:\n\n" \o BranchLines(data.branches, 1))),
              Put(session, "shown_branches", 1))

\* the branch_query handler, lines 618-638
branch_handler(data, session) ==
  IF Len(data.branches) = 0
  THEN Result(Returned("Sorry, branch information is not available."),
              session)
  ELSE Result(Returned(Strip(
                (IF session["shown_branches"] > 0 THEN AlreadyViewed ELSE "")
                \o "OUR BRANCHES:\n\n" \o BranchLines(data.branches, 1))),
              Put(session, "shown_branches", session["shown_branches"] + 1))

\* hours_handler reading the counter of the branch listing
hours_handler_branches(data, session) ==
  IF Len(data.hours) = 0
  THEN Result(Returned("Sorry, opening hours are not available."), session)
  ELSE Result(Returned(Strip(
                (IF session["shown_branches"] > 0 THEN AlreadyViewed ELSE "")
                \o "OPENING HOURS:\n\n" \o HoursLines(data.hours, 1))),
              Put(session, "shown_hours", session["shown_hours"] + 1))

\* the hours_query handler, lines 643-660
hours_handler(data, session) ==
  IF Len(data.hours) = 0
  THEN Result(Returned("Sorry, opening hours are not available."), session)
  ELSE Result(Returned(Strip(
                (IF session["shown_hours"] > 0 THEN AlreadyViewed ELSE "")
                \o "OPENING HOURS:\n\n" \o HoursLines(data.hours, 1))),
              Put(session, "shown_hours", session["shown_hours"] + 1))

\* the faq_query handler, lines 665-678: the counter is raised before the
\* loop that may raise
faq_handler(data, session) ==
  Result(FaqAnswer(data.faq, 1,
           IF session["shown_delivery"] > 0 THEN AlreadyViewed ELSE ""),
         Put(session, "shown_delivery", session["shown_delivery"] + 1))

\* the fallback, lines 692-701
fallback_handler(user_msg, facts, data, session) ==
  IF /\ facts.words <= 2
     /\ FallbackMatch(user_msg, data).found
     /\ ScoreAtLeast(FallbackMatch(user_msg, data).score, 75)
     /\ ~InList(Lower(FallbackMatch(user_msg, data).choice),
                <<"menu", "price", "order">>)
  THEN Result(Returned("I think you meant **"
                \o FallbackMatch(user_msg, data).choice
                \o "** \nWould you like to know its price or see details?"),
              session)
  ELSE Result(Returned("I'm not fully sure I understood  Would you like to see the menu or try another dish?"),
              session)

\* the menu_query handler, lines 519-613
menu_handler(user_msg, facts, data, session) ==
  IF facts.wants_view_menu /\ ~facts.wants_full_menu
  THEN {Result(Returned("Would you like to see the full menu? Just say 'full menu' and I'll show you everything! "),
               Put(session, "shown_menu", 1))}
  ELSE IF facts.wants_full_menu
  THEN {Result(Returned(full_menu_response(data.menu, data.currency)),
               Put(session, "shown_menu", 1))}
  ELSE {menu_search(facts, data, session, found) :
          found \in SearchResults(user_msg, data)}

\* the handlers of get_bot_response after the session flags are set; facts
\* holds detect_intent(user_msg), user_lower and the other text values
respond(user_msg, facts, data, session) ==
  IF facts.intent = "halal_query"
  THEN {Result(Returned("Yes  All our food is 100% halal, made only with halal-certified chicken and beef."), session)}
  ELSE IF facts.intent = "brand_query"
  THEN {Result(Returned("Speedy Bites is a food company that provides quality fast food made fresh with care."), session)}
  ELSE IF facts.intent = "farewell"
  THEN {Result(Returned(farewells[i]), session) : i \in 1..Len(farewells)}
  ELSE IF facts.intent = "menu_query"
  THEN menu_handler(user_msg, facts, data, session)
  ELSE IF facts.intent = "branch_query" THEN {branch_handler(data, session)}
  ELSE IF facts.intent = "hours_query" THEN {hours_handler(data, session)}
  ELSE IF facts.intent = "faq_query" THEN {faq_handler(data, session)}
  ELSE IF facts.intent = "about"
  THEN {Result(Returned("Speedy Bites is a food company that provides quality fast food made fresh with care."), session)}
  ELSE {fallback_handler(user_msg, facts, data, session)}

\* the outcomes one call can have: random.choice and the scorer decide
get_bot_response(user_msg, data, session_in) ==
  CHOOSE r \in
    {respond(user_msg, facts, data, session) :
       facts \in {Facts(user_msg)},
       session \in {init_session(session_in)}} : TRUE

(***************************************************************************)
(* State.  One conversation with the core (get_bot_response called turn    *)
(* after turn on one session dict), the HTTP layer of app/main.py with its *)
(* session store, and direct calls of the catalog resolver.                *)
(***************************************************************************)
VARIABLES
  data,           \* app.state.data, loaded once at startup
  session,        \* the session dict of the conversation with the core
  call,           \* the last call of get_bot_response and what it left
  seen,           \* the intents whose listing the conversation was answered
  user_sessions,  \* the session store: session id -> session dict
  last,           \* the last HTTP request and its response
  turns,          \* number of HTTP requests handled
  resolved,       \* the last direct call of the catalog resolver
  asked           \* session id -> number of turns per intent (history)

vars ==
  <<data, session, call, seen, user_sessions, last, turns, resolved, asked>>

\* the conversation is followed until a shown_* counter reaches MaxCount
MaxCount == 2

MaxSessions == 2

MaxTurns == 2

NoCall ==
  [message |-> "", intent |-> "none", normalized |-> "", status |-> "none",
   text |-> "", found |-> None, topic |-> None, before |-> EmptyDict,
   seen_before |-> {}]

\* the listings the repeat-visit preface is about: an answered faq_query,
\* an answered branch_query or hours_query on non-empty data
Listed(intent, r) ==
  /\ r.status = "ok"
  /\ \/ intent = "faq_query"
     \/ intent = "branch_query" /\ Len(data.branches) > 0
     \/ intent = "hours_query" /\ Len(data.hours) > 0

\* one turn of the conversation: get_bot_response(message, data, session)
\* mutates the session in place and returns or raises
bot_response ==
  /\ \A flag \in DOMAIN session \cap shown_flags : session[flag] < MaxCount
  /\ \E message \in Messages :
       \E r \in get_bot_response(message, data, session) :
         /\ session' = r.session
         /\ call' = [message |-> message,
                     intent |-> Facts(message).intent,
                     normalized |-> Facts(message).normalized,
                     status |-> r.status, text |-> r.text,
                     found |-> r.found, topic |-> r.topic,
                     before |-> session, seen_before |-> seen]
         /\ seen' = IF Listed(Facts(message).intent, r)
                    THEN seen \cup {Facts(message).intent} ELSE seen
         /\ UNCHANGED <<data, user_sessions, last, turns, resolved, asked>>

(***************************************************************************)
(* HTTP layer (app/main.py)                                                *)
(***************************************************************************)
SessionIds == 1..MaxSessions

\* cookie values: no cookie, an id the server never issued, or an issued id
NoCookie == 0

ForgedCookie == -1

\* what a client can send: nothing, a made-up id, or an id it was issued
Cookies(store) == {NoCookie, ForgedCookie} \cup DOMAIN store

\* the request texts sent over HTTP in the model
HttpMessages ==
  {"Where are your branches?", "What are your hours", "Do you offer delivery",
   "Show me the menu", "what's the price of zinger burger"}

NoRequest ==
  [endpoint |-> "none", cookie |-> NoCookie, session_id |-> 0, message |-> "",
   status |-> "none", text |-> "", before |-> EmptyDict,
   store_before |-> EmptyDict, sessionFlags |-> EmptyDict, actions |-> <<>>]

NotResolved ==
  [query |-> "", cleaned_msg |-> "", cat_result |-> NoMatch,
   dish_result |-> NoMatch, result |-> None, called |-> FALSE]

\* str(uuid.uuid4()): an id that is not in use; it never equals an id a
\* client made up
FreshIds(store) == SessionIds \ DOMAIN store

\* get_session creating the session of an unknown id under the id the
\* client sent
get_session_client_id(cookie, store) ==
  IF cookie = NoCookie
  THEN {[session_id |-> id, store |-> Put(store, id, EmptyDict)] :
          id \in FreshIds(store)}
  ELSE IF cookie \notin DOMAIN store
  THEN {[session_id |-> cookie, store |-> Put(store, cookie, EmptyDict)]}
  ELSE {[session_id |-> cookie, store |-> store]}

\* get_session: the pairs (session_id, store) it can leave behind
get_session(cookie, store) ==
  IF cookie = NoCookie \/ cookie \notin DOMAIN store
  THEN {[session_id |-> id, store |-> Put(store, id, EmptyDict)] :
          id \in FreshIds(store)}
  ELSE {[session_id |-> cookie, store |-> store]}

\* {k: bool(v) for k, v in session.items() if k.startswith('shown_')}
session_flags(s) == [k \in DOMAIN s \cap shown_flags |-> s[k] # 0]

\* the turns a session id has had, per intent
TurnsOf(id) ==
  IF HasKey(asked, id) THEN asked[id] ELSE [intent \in IntentLabels |-> 0]

\* the part of a request both endpoints share: get_session, then
\* get_bot_response on the session object of the store; an exception leaves
\* the store as mutated so far and produces no body
Handle(endpoint, cookie, message) ==
  /\ turns < MaxTurns
  /\ \E gs \in get_session(cookie, user_sessions) :
       \E r \in get_bot_response(message, data, gs.store[gs.session_id]) :
         /\ user_sessions' = Put(gs.store, gs.session_id, r.session)
         /\ last' = [endpoint |-> endpoint, cookie |-> cookie,
                     session_id |-> gs.session_id, message |-> message,
                     status |-> r.status, text |-> r.text,
                     before |-> gs.store[gs.session_id],
                     store_before |-> user_sessions,
                     sessionFlags |->
                       IF endpoint = "chat" /\ r.status = "ok"
                       THEN session_flags(r.session) ELSE EmptyDict,
                     actions |->
                       IF endpoint = "api_query" /\ r.status = "ok"
                       THEN Facts(message).actions ELSE <<>>]
         /\ asked' = Put(asked, gs.session_id,
                         [TurnsOf(gs.session_id) EXCEPT
                            ![Facts(message).intent] = @ + 1])
  /\ turns' = turns + 1
  /\ UNCHANGED <<data, session, call, seen, resolved>>

\* POST /chat
chat ==
  \E cookie \in Cookies(user_sessions), message \in HttpMessages :
    Handle("chat", cookie, message)

\* POST /api/query
api_query ==
  \E cookie \in Cookies(user_sessions), message \in HttpMessages :
    Handle("api_query", cookie, message)

(***************************************************************************)
(* The catalog resolver alone: search_category_or_dish applied to a query  *)
(* of the model and to every outcome of its two extractOne calls           *)
(***************************************************************************)
ResolverQueries == {"zinger", "burger", "price", "double beef burger"}

\* the arguments of one call and the outcomes its two extractOne calls have
ResolverInputs(menu_data) ==
  {[query |-> user_msg, cleaned_msg |-> "", cat_result |-> cat_result,
    dish_result |-> dish_result, result |-> None, called |-> FALSE] :
     user_msg \in ResolverQueries,
     cat_result \in extractOne_token_set(CategoryNames(menu_data),
                                         ThresholdScores),
     dish_result \in extractOne_token_set(all_items(menu_data),
                                          ThresholdScores)}

\* search_category_or_dish(resolved.query, data.menu)
search ==
  /\ ~resolved.called
  /\ \E cleaned_msg \in {search_query(resolved.query)} :
       resolved' = [resolved EXCEPT
                      !.cleaned_msg = cleaned_msg,
                      !.result = resolve(cleaned_msg, data.menu,
                                         resolved.cat_result,
                                         resolved.dish_result),
                      !.called = TRUE]
  /\ UNCHANGED <<data, session, call, seen, user_sessions, last, turns, asked>>

Init ==
  /\ data \in Datasets
  /\ session = EmptyDict
  /\ call = NoCall
  /\ seen = {}
  /\ user_sessions = EmptyDict
  /\ last = NoRequest
  /\ turns = 0
  /\ resolved = NotResolved
  /\ asked = EmptyDict

\* the conversation with the core
Next == bot_response

Spec == Init /\ [][Next]_vars

\* the HTTP endpoints
NextHttp == chat \/ api_query

SpecHttp == Init /\ [][NextHttp]_vars

\* the catalog resolver, called once on inputs drawn at the start
InitResolver ==
  /\ data \in Datasets
  /\ session = EmptyDict
  /\ call = NoCall
  /\ seen = {}
  /\ user_sessions = EmptyDict
  /\ last = NoRequest
  /\ turns = 0
  /\ resolved \in ResolverInputs(data.menu)
  /\ asked = EmptyDict

NextResolver == search

SpecResolver == InitResolver /\ [][NextResolver]_vars

(***************************************************************************)
(* Properties                                                              *)
(***************************************************************************)
StartsWith(s, prefix) ==
  Len(s) >= Len(prefix) /\ SubSeq(s, 1, Len(prefix)) = prefix

Called == call.status # "none"

\* the (category, position) pairs of the well-formed items of the menu
NamedItems(menu_data) ==
  {<<k, j>> \in (1..Len(menu_data)) \X (1..3) :
     /\ IsList(menu_data[k][2])
     /\ j <= Len(menu_data[k][2].v)
     /\ IsDict(menu_data[k][2].v[j])
     /\ HasKey(menu_data[k][2].v[j].v, "name")}

ItemAt(menu_data, kj) == menu_data[kj[1]][2].v[kj[2]].v

PricedByVariants(item) ==
  /\ HasKey(item, "variants")
  /\ \E k \in 1..Len(item.variants) : HasKey(item.variants[k], "price")

\* C1: every call of detect_intent returns one label of the fixed set of
\* ten labels, never an empty or other value
C1_IntentInLabels == Called => call.intent \in IntentLabels

\* the blank message was classified, with a label of the set
C1_Witness == Called /\ call.message = "" /\ call.intent = "unknown"

\* C2: the message "hi" is classified greeting and answered with one of
\* the fixed greetings
C2_HiIsGreeted ==
  (Called /\ call.message = "hi")
    => /\ call.intent = "greeting"
       /\ call.status = "ok"
       /\ InList(call.text, greetings)

\* C3: get_bot_response always ends by returning a string, never in an
\* exception, whatever the message, the datasets and the session
C3_NeverRaises == call.status # "raise"

\* C4: a menu_query turn whose topic is a dish answers with a card of that
\* dish showing its price(s), prefixed by the "I think you meant" line
\* exactly when the dish name is not part of the lower-cased message
C4_DishCard ==
  (Called /\ call.intent = "menu_query" /\ call.topic.type = "dish")
    => /\ call.status = "ok"
       /\ Contains(call.text, call.topic.data)
       /\ \A kj \in NamedItems(data.menu) :
            ItemAt(data.menu, kj).name = call.topic.data
              => IF PricedByVariants(ItemAt(data.menu, kj))
                 THEN \A p \in VariantPrices(ItemAt(data.menu, kj).variants) :
                        Contains(call.text, ToString(p))
                 ELSE HasKey(ItemAt(data.menu, kj), "base_price")
                        => Contains(call.text,
                                    ToString(ItemAt(data.menu, kj).base_price))
       /\ StartsWith(call.text, "I think you meant **" \o call.topic.data
                                  \o "**")
            <=> ~Contains(Facts(call.message).user_lower,
                          Lower(call.topic.data))

\* the rules detect_intent tries before the farewell rule
EarlierRule(n) ==
  \/ n \in {"show me the menu", "what are your hours",
            "where are your branches", "do you offer delivery"}
  \/ AnyIn(menu_keywords, n)
  \/ Contains(n, "price") \/ Contains(n, "how much") \/ Contains(n, "cost")

\* some whitespace-separated token of n is a goodbye keyword
GoodbyeToken(n) ==
  \E i \in 1..Len(Split(n)) :
    \E k \in 1..Len(goodbye_keywords) : Split(n)[i] = goodbye_keywords[k]

\* C5: when no earlier rule matches, the intent is farewell exactly when a
\* token of the normalized message equals a goodbye keyword; "goodbye" is
\* a farewell, "I'm not a goodbyeologist" is not, and neither is "see you",
\* whose tokens are no keywords
C5_FarewellWholeWord ==
  Called
    => /\ ~EarlierRule(call.normalized)
            => (call.intent = "farewell" <=> GoodbyeToken(call.normalized))
       /\ call.intent = "farewell" => GoodbyeToken(call.normalized)
       /\ call.message = "goodbye" => call.intent = "farewell"
       /\ call.message = "see you" => call.intent # "farewell"
       /\ call.message = "I'm not a goodbyeologist"
            => call.intent # "farewell"

\* a keyword inside a longer token was classified, and not as a farewell
C5_Witness ==
  /\ call.message = "I'm not a goodbyeologist"
  /\ Contains(call.normalized, "goodbye")
  /\ ~EarlierRule(call.normalized)
  /\ call.intent = "unknown"

\* C6: on an empty catalog search_category_or_dish returns None for every
\* query
C6_EmptyCatalogNoMatch ==
  (resolved.called /\ Len(data.menu) = 0) => resolved.result = None

\* the resolver was called on the empty catalog
C6_Witness ==
  /\ resolved.called
  /\ Len(data.menu) = 0
  /\ resolved.query = "zinger"
  /\ resolved.result = None

\* the candidates of the catalog that contain the cleaned query
SubstringCandidates ==
  {k \in 1..Len(all_items(data.menu)) :
     Contains(Lower(all_items(data.menu)[k]), Lower(resolved.cleaned_msg))}

\* C7 as stated: whenever some candidate dish name contains the cleaned
\* query, the resolver returns the dish of such a candidate, whatever the
\* scorer assigned to the other candidates and to the category names
C7_SubstringAlwaysDish ==
  (resolved.called /\ SubstringCandidates # {})
    => /\ resolved.result.type = "dish"
       /\ \E k \in SubstringCandidates :
            resolved.result.data
              = dish_map(data.menu, Lower(all_items(data.menu)[k]))

\* the dish candidate extractOne returned contains the cleaned query
BestContainsQuery ==
  /\ resolved.called
  /\ resolved.dish_result.found
  /\ Contains(Lower(resolved.dish_result.choice), Lower(resolved.cleaned_msg))

\* C7, amended: when the dish candidate the scorer ranks best contains the
\* cleaned query, it is accepted with a score of at least 95 whatever its
\* own score, and the result is its dish, unless the best category scores
\* above 85 and the boosted dish score is not more than 10 above it: then
\* the result is that category
C7_BoostOfBestCandidate ==
  BestContainsQuery
    => IF /\ resolved.cat_result.found
          /\ resolved.cat_result.score > 85
          /\ Max(resolved.dish_result.score, 95)
               <= resolved.cat_result.score + 10
       THEN resolved.result
              = CategoryResult(data.menu, resolved.cat_result.choice)
       ELSE resolved.result
              = DishResult(dish_map(data.menu,
                                    Lower(resolved.dish_result.choice)))

\* "zinger" with the scorer picking "Zinger Burger" at score 0 is a dish
C7_Witness ==
  /\ BestContainsQuery
  /\ resolved.query = "zinger"
  /\ resolved.dish_result.choice = "Zinger Burger"
  /\ resolved.dish_result.score = 0
  /\ resolved.result = DishResult("Zinger Burger")

\* the accepted scores of the last call of the resolver: c >= 80, d >= 60
\* after the boost
CatAccepted == resolved.cat_result.found /\ resolved.cat_result.score >= 80

DishScore ==
  IF BestContainsQuery THEN Max(resolved.dish_result.score, 95)
  ELSE resolved.dish_result.score

DishAccepted == resolved.dish_result.found /\ DishScore >= 60

TheCategory == CategoryResult(data.menu, resolved.cat_result.choice)

TheDish ==
  DishResult(dish_map(data.menu, Lower(resolved.dish_result.choice)))

\* C8: with accepted category score c and accepted dish score d the result
\* is: if c > 85 the category unless d > c + 10; else if d > 80 the dish;
\* else if both exist the higher one, ties to the category; else the only
\* candidate; else None
C8_DecisionRule ==
  resolved.called
    => resolved.result =
         IF CatAccepted /\ resolved.cat_result.score > 85
         THEN (IF DishAccepted /\ DishScore > resolved.cat_result.score + 10
               THEN TheDish ELSE TheCategory)
         ELSE IF DishAccepted /\ DishScore > 80 THEN TheDish
         ELSE IF CatAccepted /\ DishAccepted
              THEN (IF DishScore > resolved.cat_result.score
                    THEN TheDish ELSE TheCategory)
         ELSE IF CatAccepted THEN TheCategory
         ELSE IF DishAccepted THEN TheDish
         ELSE None

\* category score 90 against dish score 95 gave the category
C8_Witness ==
  /\ resolved.called
  /\ CatAccepted /\ resolved.cat_result.score = 90
  /\ DishAccepted /\ DishScore = 95
  /\ resolved.result = TheCategory

\* the price text of a line of build_category_response for variant prices
MinPrice(item) == ToString(SetMin(VariantPrices(item.variants)))

MaxPrice(item) == ToString(SetMax(VariantPrices(item.variants)))

\* C9: the response to a full-menu request names every category that has
\* items and every item of it, shows the base price of every base-priced
\* item and the minimum or the min-max range of every variant-priced item
C9_FullMenuPrices ==
  (Called /\ call.intent = "menu_query"
     /\ Facts(call.message).wants_full_menu)
    => /\ call.status = "ok"
       /\ \A kj \in NamedItems(data.menu) :
            /\ Contains(call.text, DisplayName(data.menu[kj[1]][1]) \o "\n")
            /\ Contains(call.text, "* " \o ItemAt(data.menu, kj).name)
            /\ IF PricedByVariants(ItemAt(data.menu, kj))
               THEN \/ Contains(call.text,
                                ItemAt(data.menu, kj).name \o " - "
                                  \o MinPrice(ItemAt(data.menu, kj)) \o " "
                                  \o data.currency)
                    \/ Contains(call.text,
                                ItemAt(data.menu, kj).name \o " - "
                                  \o MinPrice(ItemAt(data.menu, kj)) \o "-"
                                  \o MaxPrice(ItemAt(data.menu, kj)) \o " "
                                  \o data.currency)
               ELSE HasKey(ItemAt(data.menu, kj), "base_price")
                      => Contains(call.text,
                                  ItemAt(data.menu, kj).name \o " - "
                                    \o ToString(ItemAt(data.menu,
                                                       kj).base_price)
                                    \o " " \o data.currency)

\* the turns the repeat-visit preface is about
ListingTurn ==
  /\ call.status = "ok"
  /\ \/ call.intent = "faq_query"
     \/ call.intent = "branch_query" /\ Len(data.branches) > 0
     \/ call.intent = "hours_query" /\ Len(data.hours) > 0

\* the shown_* counter a listing intent raises
CounterOf(intent) ==
  CASE intent = "branch_query" -> "shown_branches"
    [] intent = "hours_query"  -> "shown_hours"
    [] intent = "faq_query"    -> "shown_delivery"

\* C10: a branch, hours or delivery listing carries the "already viewed"
\* preface exactly when an earlier turn of the same intent was answered in
\* the session, which is when the counter of that intent was above 0; the
\* first listing of an intent never carries it, whatever the other two
\* intents did before
C10_PrefaceIffSeen ==
  ListingTurn
    => /\ StartsWith(call.text, AlreadyViewed)
            <=> call.intent \in call.seen_before
       /\ call.intent \in call.seen_before
            <=> /\ HasKey(call.before, CounterOf(call.intent))
                /\ call.before[CounterOf(call.intent)] > 0

\* a second branch listing, with the preface
C10_Witness ==
  /\ ListingTurn
  /\ call.intent = "branch_query"
  /\ "branch_query" \in call.seen_before
  /\ call.before["shown_branches"] = 1
  /\ StartsWith(call.text, AlreadyViewed)

\* the message of the scenario met a catalog without a "rolls" category
\* and the resolver returned no match
RollsTurn ==
  /\ Called
  /\ call.message = "do you have rolls"
  /\ \A k \in 1..Len(data.menu) : data.menu[k][1] # "rolls"
  /\ call.found = None

\* C11: "do you have rolls" on a catalog with no "rolls" category and no
\* resolver match is answered with the canned "Currently, rolls are not
\* available" message, not with the Popular Items preview or a fallback
C11_RollsUnavailable ==
  RollsTurn
    => /\ call.status = "ok"
       /\ StartsWith(call.text, "Currently, rolls are not available")

\* the dataset a turn of the intent reads
DatasetOf(intent) ==
  CASE intent = "menu_query"   -> data.menu
    [] intent = "branch_query" -> data.branches
    [] intent = "hours_query"  -> data.hours
    [] intent = "faq_query"    -> data.faq

\* a turn of one of the four intents that read a dataset, on an empty one
EmptyDatasetTurn ==
  /\ Called
  /\ call.intent \in {"menu_query", "branch_query", "hours_query", "faq_query"}
  /\ Len(DatasetOf(call.intent)) = 0

\* a canned sentence saying that the information is not available
SaysNotAvailable(text) ==
  Contains(Lower(text), "not available") \/ Contains(Lower(text), "unavailable")

\* C12: a menu_query, branch_query, hours_query or faq_query turn on an
\* empty dataset of its own returns a canned "not available" sentence, not
\* an error and not an empty listing
C12_EmptyDatasetNotAvailable ==
  EmptyDatasetTurn => call.status = "ok" /\ SaysNotAvailable(call.text)

\* the contractions of the table that occur in the lower-cased message
ContractionsIn(message) ==
  {k \in 1..Len(contractions) : Contains(Lower(message), contractions[k][1])}

\* lowercase, word characters separated by single spaces
CleanText(text) ==
  /\ text = Lower(text)
  /\ \A i \in 1..Len(text) : CharAt(text, i) \in WordChars \cup {" "}
  /\ ~Contains(text, "  ")
  /\ text = Strip(text)

\* C13: the output of normalize_text holds the expansion of every
\* contraction of the table that the input contains ("what's" gives
\* "what is", "i'm" gives "i am"), and it is lowercase, without
\* punctuation and with single spaces
C13_ContractionsExpanded ==
  Called
    => /\ \A k \in ContractionsIn(call.message) :
            Contains(call.normalized, contractions[k][2])
       /\ CleanText(call.normalized)

\* the intent of the button caption n is equal to, "none" for other texts
CaptionIntent(n) ==
  CASE n = "show me the menu"        -> "menu_query"
    [] n = "what are your hours"     -> "hours_query"
    [] n = "where are your branches" -> "branch_query"
    [] n = "do you offer delivery"   -> "faq_query"
    [] OTHER                         -> "none"

\* the rules in the order of the claim, each with the label it returns:
\* caption, menu keyword, price, farewell, halal, brand, location, time,
\* delivery, food keyword, unknown
CascadeRules(n) ==
  << <<CaptionIntent(n) # "none", CaptionIntent(n)>>,
     <<AnyIn(menu_keywords, n), "menu_query">>,
     <<AnyIn(<<"price", "how much", "cost">>, n), "menu_query">>,
     <<GoodbyeToken(n), "farewell">>,
     <<AnyIn(<<"halal", "haram">>, n), "halal_query">>,
     <<AnyIn(<<"what is speedy bites", "what is food bite", "brand",
               "company", "famous", "speciality", "speed bite", "who are we",
               "about you", "tell me about">>, n), "brand_query">>,
     <<AnyIn(<<"branch", "location", "address", "where">>, n),
       "branch_query">>,
     <<AnyIn(<<"hours", "open", "time", "when">>, n), "hours_query">>,
     <<AnyIn(<<"delivery", "deliver">>, n), "faq_query">>,
     <<AnyIn(food_keywords, n), "menu_query">>,
     <<TRUE, "unknown">> >>

\* the rules of the cascade that match n
MatchingRules(n) ==
  {k \in 1..Len(CascadeRules(n)) : CascadeRules(n)[k][1]}

\* the label of the earliest rule that matches n
CascadeLabel(n) ==
  CHOOSE label \in
    {rules[CHOOSE k \in 1..Len(rules) :
             rules[k][1] /\ \A j \in 1..(k - 1) : ~rules[j][1]][2] :
       rules \in {CascadeRules(n)}} : TRUE

\* CascadeLabel of the normalized text of every message of the model
CascadeLabels ==
  <<>> \o [k \in 1..Len(MessageList) |->
             CascadeLabel(TextFactsTable[k].normalized)]

\* C14: detect_intent returns the label of the earliest matching rule of
\* the cascade caption, menu keyword, price, farewell, halal, brand,
\* location, time, delivery, food keyword, unknown: "menu bye" is a
\* menu_query, "where do you open" a branch_query, and a message that
\* normalizes to a button caption has the intent of that caption
C14_FirstMatchWins ==
  Called
    => /\ call.normalized = Facts(call.message).normalized
       /\ call.intent = CascadeLabels[MsgIndex(call.message)]
       /\ CaptionIntent(call.normalized) # "none"
            => call.intent = CaptionIntent(call.normalized)
       /\ call.message = "menu bye" => call.intent = "menu_query"
       /\ call.message = "where do you open" => call.intent = "branch_query"

\* a message matching the menu-keyword rule and the farewell rule was
\* classified by the earlier of the two
C14_Witness ==
  /\ Called
  /\ call.message = "menu bye"
  /\ {2, 4} \subseteq MatchingRules(call.normalized)
  /\ call.intent = "menu_query"

\* a menu_query turn below the view-menu and full-menu requests
SearchTurn ==
  /\ Called
  /\ call.intent = "menu_query"
  /\ ~Facts(call.message).wants_view_menu
  /\ ~Facts(call.message).wants_full_menu

\* the topic the session held when the turn began
StoredTopic ==
  IF HasKey(call.before, "last_topic") THEN call.before["last_topic"]
  ELSE None

\* a follow-up: a topic is stored and the message leaves no search term or
\* mentions price, cost or want
FollowupTurn ==
  /\ SearchTurn
  /\ StoredTopic # None
  /\ \/ Facts(call.message).cleaned_msg = ""
     \/ Facts(call.message).followup_word

\* the cleaned message is one of the known unavailable categories
KnownUnavailable ==
  /\ Facts(call.message).cleaned_msg # ""
  /\ Facts(call.message).unavailable_match.found
  /\ ScoreAtLeast(Facts(call.message).unavailable_match.score, 80)

\* C15 as stated: a follow-up turn is answered from the stored topic and
\* the result of the resolver for the current message is not used
C15_FollowupIgnoresResolver ==
  FollowupTurn
    => /\ call.topic = StoredTopic
       /\ session["last_topic"] = StoredTopic

\* C15, amended: in a follow-up turn a match of the resolver for the
\* current message wins: it is the topic answered and it replaces
\* last_topic; without a match the known-unavailable message is returned if
\* the cleaned message names such a category, and only otherwise the
\* stored topic is answered and kept.  A category topic is answered with
\* its listing, a dish topic ends in the NameError of the dish branch
C15_FollowupAfterResolver ==
  FollowupTurn
    => /\ call.found # None
            => call.topic = call.found /\ session["last_topic"] = call.found
       /\ (call.found = None /\ KnownUnavailable)
            => /\ call.topic = None
               /\ call.status = "ok"
               /\ StartsWith(call.text, "Currently, ")
               /\ session["last_topic"] = StoredTopic
       /\ (call.found = None /\ ~KnownUnavailable)
            => call.topic = StoredTopic /\ session["last_topic"] = StoredTopic
       /\ call.topic # None
            => IF call.topic.type = "category"
               THEN /\ call.status = "ok"
                    /\ call.text = build_category_response(call.topic.data,
                                      call.topic.items, data.currency)
               ELSE call.status = "raise" /\ call.text = "NameError"

\* "price" after a category was shown, with no match of the resolver: the
\* stored category is listed again
C15_Witness ==
  /\ FollowupTurn
  /\ call.message = "price"
  /\ call.found = None
  /\ StoredTopic.type = "category"
  /\ call.topic = StoredTopic
  /\ StartsWith(call.text, "**BURGERS**")

\* C16: after a turn last_topic is the match of the resolver if the turn is
\* a menu_query turn in which the resolver ran and returned a match, and
\* otherwise what it was before the turn (None in a new session): turns of
\* other intents, view-menu and full-menu requests, known-unavailable
\* answers, follow-ups answered from the stored topic and unresolved turns
\* leave it alone
C16_LastTopicFrame ==
  Called
    => /\ HasKey(session, "last_topic")
       /\ session["last_topic"]
            = IF SearchTurn /\ call.found # None THEN call.found
              ELSE StoredTopic
       /\ ~SearchTurn => call.found = None

\* a stored dish was replaced by the category the resolver returned
C16_Witness ==
  /\ SearchTurn
  /\ StoredTopic # None
  /\ StoredTopic.type = "dish"
  /\ call.found # None
  /\ call.found.type = "category"
  /\ session["last_topic"] = call.found

\* a turn of another intent left the stored topic alone
C16_WitnessKept ==
  /\ Called
  /\ call.intent = "branch_query"
  /\ StoredTopic # None
  /\ session["last_topic"] = StoredTopic

\* an HTTP request was handled
Requested == last.endpoint # "none"

\* the request carried the id of a session of the store
KnownCookie == last.cookie \in DOMAIN last.store_before

\* C17: a request without a session id or with an id that is not in the
\* store creates an empty session under a fresh id, never the id the
\* client sent; a request with a known id runs on the session of that id;
\* in both cases the turn runs on that session and its outcome is stored
\* under the same id, no session is removed and no other session changes
C17_StoreGetOrCreate ==
  Requested
    => /\ DOMAIN last.store_before \subseteq DOMAIN user_sessions
       /\ \A id \in DOMAIN last.store_before \ {last.session_id} :
            user_sessions[id] = last.store_before[id]
       /\ IF KnownCookie
          THEN /\ last.session_id = last.cookie
               /\ DOMAIN user_sessions = DOMAIN last.store_before
               /\ last.before = last.store_before[last.cookie]
          ELSE /\ last.session_id \notin DOMAIN last.store_before
               /\ last.session_id # last.cookie
               /\ DOMAIN user_sessions
                    = DOMAIN last.store_before \cup {last.session_id}
               /\ last.before = EmptyDict
       /\ \E r \in get_bot_response(last.message, data, last.before) :
            /\ r.status = last.status
            /\ r.text = last.text
            /\ r.session = user_sessions[last.session_id]

\* a request with a made-up id, sent when the store held a session with
\* state, got a new session and left the old one as it was
C17_Witness ==
  /\ Requested
  /\ last.cookie = ForgedCookie
  /\ \E id \in DOMAIN last.store_before :
       /\ last.store_before[id] # EmptyDict
       /\ id # last.session_id
       /\ user_sessions[id] = last.store_before[id]
  /\ last.session_id \notin DOMAIN last.store_before
  /\ user_sessions[last.session_id] # EmptyDict

\* the number of turns of the intent that met a non-empty dataset
ListedTurns(id, intent, dataset) ==
  IF Len(dataset) > 0 THEN TurnsOf(id)[intent] ELSE 0

\* the value of a counter when the last request began: 0 in a new session
CounterBefore(flag) ==
  IF HasKey(last.before, flag) THEN last.before[flag] ELSE 0

\* C18: every session of the store holds the four shown_* counters, all
\* naturals; shown_menu is 0 or 1; shown_branches and shown_hours count
\* the branch_query and hours_query turns of the session that met a
\* non-empty dataset and shown_delivery counts its faq_query turns; no
\* request lowers a counter; the sessionFlags of a /chat response are
\* counter > 0, so a flag that was true stays true
C18_CountersCountTurns ==
  /\ \A id \in DOMAIN user_sessions :
       /\ shown_flags \subseteq DOMAIN user_sessions[id]
       /\ \A flag \in shown_flags : user_sessions[id][flag] \in Nat
       /\ user_sessions[id]["shown_menu"] \in {0, 1}
       /\ user_sessions[id]["shown_branches"]
            = ListedTurns(id, "branch_query", data.branches)
       /\ user_sessions[id]["shown_hours"]
            = ListedTurns(id, "hours_query", data.hours)
       /\ user_sessions[id]["shown_delivery"] = TurnsOf(id)["faq_query"]
  /\ Requested
       => /\ \A flag \in shown_flags :
               CounterBefore(flag) <= user_sessions[last.session_id][flag]
          /\ (last.endpoint = "chat" /\ last.status = "ok")
               => /\ last.sessionFlags
                       = [flag \in shown_flags |->
                            user_sessions[last.session_id][flag] > 0]
                  /\ \A flag \in shown_flags :
                       CounterBefore(flag) > 0 => last.sessionFlags[flag]

\* the second branch listing of a session over /chat: the counter is 2 and
\* the flag, true before, is true again
C18_Witness ==
  /\ Requested
  /\ last.endpoint = "chat"
  /\ last.status = "ok"
  /\ KnownCookie
  /\ CounterBefore("shown_branches") = 1
  /\ TurnsOf(last.session_id)["branch_query"] = 2
  /\ user_sessions[last.session_id]["shown_branches"] = 2
  /\ last.sessionFlags["shown_branches"]
  /\ ~last.sessionFlags["shown_hours"]

=============================================================================
